---- MODULE Spec2Model ----
(***************************************************************************)
(* The toydb benchmark harness: the three sweep scripts                    *)
(*   toydb/pflayer/pf_task1_testrunner.py   (validating sweep runner)      *)
(*   toydb/pflayer/run_pf_experiments.py    (shared result-sink sweep)     *)
(*   toydb/amlayer/run_task3_experiments.py (three-method batch sweep)     *)
(* as state machines.  Text is modelled as sequences of lines, a line as   *)
(* the sequence of its comma-separated parts, a part as a token.  A write  *)
(* fraction is kept in hundredths (0.25 is 25) where the scripts hold a    *)
(* float literal.                                                          *)
(***************************************************************************)
EXTENDS Integers, Sequences, FiniteSets, TLC

VARIABLES
    variant,    \* which script runs
    quick,      \* the QUICK environment toggle (pf_task1_testrunner)
    args,       \* the command line of run_pf_experiments
    pc,         \* the script's control point
    idx,        \* configurations yielded so far
    cur,        \* the configuration last yielded, <<pool, policy, ops, pages, write_frac>>
    loop,       \* run_pf_experiments' loop positions [pi, qi, wi]
    cfg,        \* run_single's arguments <<pool, policy, ops, pages_v, write_frac>>
    outcome,    \* what the tested binary did on the invocation at hand
    res,        \* what run_single returned
    env,        \* the files found at start: the tested binary, its build, the data file
    csv,        \* the results file on disk, line by line
    pending,    \* lines written to the results file and still in the writer's buffer
    passes,     \* tallies of pf_task1_testrunner
    fails,
    errors,
    report,     \* the summary report, once written
    exitCode,   \* the process exit status, -1 while it runs
    calls,      \* the invocations of the tested binary so far (their arguments)
    aggregated, \* run_task3_experiments' result tuples
    running,    \* whether the tested binary runs (run_pf_experiments)
    taken,      \* run_pf_experiments: the counters read back per invocation
    plots       \* run_pf_experiments: the figures saved, <<policy, pool>> each

genVars == <<variant, quick, args, pc, idx, cur, loop>>
runVars == <<cfg, outcome, res>>
sweepVars == <<env, csv, pending, passes, fails, errors, report, exitCode, calls,
               aggregated, running, taken, plots>>
vars == <<genVars, runVars, sweepVars>>

TESTRUNNER == "pf_task1_testrunner"
PFEXP == "run_pf_experiments"
TASK3 == "run_task3_experiments"

NoCfg == <<>>
NoArgs == [bins |-> 0, ops |-> 0, pages |-> 0, pools |-> <<>>]
NoLoop == [pi |-> 0, qi |-> 0, wi |-> 0]

(***************************************************************************)
(* Parameter grid of pf_task1_testrunner, full and QUICK.                  *)
(***************************************************************************)
pools(q) == IF q THEN <<1, 5>> ELSE <<0, 1, 3, 5, 10, 20>>
pages(q) == IF q THEN <<3, 10>> ELSE <<1, 2, 3, 5, 10>>
policies == <<"LRU", "MRU">>
ops_list(q) == IF q THEN <<10, 200>> ELSE <<1, 5, 50, 200>>
write_fracs(q) == IF q THEN <<0, 50, 100>> ELSE <<0, 1, 10, 25, 50, 75, 90, 100>>

\* itertools.product: result = [[]]; for each axis: result = [x+[y] for x in result for y in axis]
\* [x+[y] for x in result for y in axis]: x is the slow index, y the fast one
ExtendSwapped(result, axis) ==
    [k \in 1..(Len(result) * Len(axis)) |->
        Append(result[((k - 1) % Len(result)) + 1], axis[((k - 1) \div Len(result)) + 1])]

Extend(result, axis) ==
    [k \in 1..(Len(result) * Len(axis)) |->
        Append(result[((k - 1) \div Len(axis)) + 1], axis[((k - 1) % Len(axis)) + 1])]

RECURSIVE productFrom(_, _)
productFrom(result, axes) ==
    IF axes = <<>> THEN result
    ELSE productFrom(Extend(result, Head(axes)), Tail(axes))

product(axes) == productFrom(<< <<>> >>, axes)

\* combos = list(product(pools, policies, ops_list, pages, write_fracs))
grid(q) == product(<<pools(q), policies, ops_list(q), pages(q), write_fracs(q)>>)

GridFull == grid(FALSE)
GridQuick == grid(TRUE)
gridOf(q) == IF q THEN GridQuick ELSE GridFull

(***************************************************************************)
(* Axes of run_pf_experiments: --pools, the write mixes i/(bins-1) kept as *)
(* the pair <<i, bins-1>>, and the two policies; --ops and --pages are     *)
(* single values.                                                          *)
(***************************************************************************)
pf_policies == <<"lru", "mru">>
pf_write_fracs(a) == [i \in 1..a.bins |-> <<i - 1, a.bins - 1>>]

MaxBins == 3
PoolArgs == {<<5>>, <<5, 10>>, <<10, 5>>, <<5, 5>>}
ArgSets == [bins : 1..MaxBins, ops : {200}, pages : {10}, pools : PoolArgs]

PfCmd(a, l) == <<a.pools[l.qi], pf_policies[l.pi], a.ops, a.pages, pf_write_fracs(a)[l.wi]>>

\* the nested for loops of run_pf_experiments: wf innermost, then pool, policy outermost
PfLoopFirst == [pi |-> 1, qi |-> 1, wi |-> 1]
PfLoopMore(a, l) ==
    \/ l.wi < a.bins
    \/ l.qi < Len(a.pools)
    \/ l.pi < Len(pf_policies)
PfLoopNext(a, l) ==
    IF l.wi < a.bins THEN [l EXCEPT !.wi = l.wi + 1]
    ELSE IF l.qi < Len(a.pools) THEN [l EXCEPT !.wi = 1, !.qi = l.qi + 1]
    ELSE [pi |-> l.pi + 1, qi |-> 1, wi |-> 1]

(***************************************************************************)
(* Text.  A token is one cell of text: t tells what int() and float() make *)
(* of it, s is its spelling, n its value (hundredths when t = "dec").      *)
(* A part is one comma-separated piece of a line, "k=v" (eq) or bare.      *)
(***************************************************************************)
IntTok(n) == [t |-> "int", s |-> ToString(n), n |-> n]
DecTok(s, h) == [t |-> "dec", s |-> s, n |-> h]
StrTok(s) == [t |-> "str", s |-> s, n |-> 0]
\* the restval of csv.DictReader for a cell the row does not have
None == [t |-> "none", s |-> "", n |-> 0]

KV(k, v) == [eq |-> TRUE, k |-> k, v |-> v]
Bare(v) == [eq |-> FALSE, k |-> "", v |-> v]
PartText(p) == IF p.eq THEN p.k \o "=" \o p.v.s ELSE p.v.s
\* a cell of a csv row: the text of the part
Cell(p) == IF p.eq THEN StrTok(PartText(p)) ELSE p.v

NoOutcome == [kind |-> "none", rc |-> 0, stdout |-> <<>>]
NoRes == [status |-> "none"]
RunIdle == cfg = NoCfg /\ outcome = NoOutcome /\ res = NoRes

NoEnv == [bin |-> TRUE, make |-> FALSE, built |-> FALSE, data |-> TRUE, mpl |-> TRUE]
NoReport == [total |-> -1, passes |-> -1, fails |-> -1, errors |-> -1]
SweepIdle ==
    /\ env = NoEnv /\ csv = <<>> /\ pending = <<>>
    /\ passes = 0 /\ fails = 0 /\ errors = 0
    /\ report = NoReport /\ exitCode = -1 /\ calls = <<>>
    /\ aggregated = <<>> /\ running = FALSE /\ taken = <<>> /\ plots = <<>>

\* lines = [l for l in content.splitlines() if l.strip()]
NonBlank(stdout) == SelectSeq(stdout, LAMBDA l : l # <<>>)

\* r = {}; for part in last.split(','): if '=' in part: r[k.strip()] = v.strip()
KvDict(last) ==
    LET keys == {last[i].k : i \in {j \in 1..Len(last) : last[j].eq}}
        at(k) == CHOOSE i \in 1..Len(last) :
                    /\ last[i].eq /\ last[i].k = k
                    /\ \A j \in (i + 1)..Len(last) : ~(last[j].eq /\ last[j].k = k)
    IN [k \in keys |-> last[at(k)].v]

\* rows[-1] of csv.DictReader(lines): the first line names the fields, a short row is
\* filled with None (cells beyond the header go under the key None, which no lookup uses)
DictReaderLast(lines) ==
    LET header == lines[1]
        row == lines[Len(lines)]
        names == {PartText(header[i]) : i \in 1..Len(header)}
        at(k) == CHOOSE i \in 1..Len(header) :
                    /\ PartText(header[i]) = k
                    /\ \A j \in (i + 1)..Len(header) : PartText(header[j]) # k
    IN [k \in names |-> IF at(k) <= Len(row) THEN Cell(row[at(k)]) ELSE None]

\* int(x), float(x) and the text of the exception each raises
IntOk(tok) == tok.t = "int"
IntErr(tok) ==
    IF tok.t = "none"
    THEN "int() argument must be a string, a bytes-like object or a real number, not 'NoneType'"
    ELSE "invalid literal for int() with base 10: '" \o tok.s \o "'"
FloatOk(tok) == tok.t \in {"int", "dec"}
FloatVal(tok) == IF tok.t = "int" THEN 100 * tok.n ELSE tok.n
FloatErr(tok) ==
    IF tok.t = "none"
    THEN "float() argument must be a string or a real number, not 'NoneType'"
    ELSE "could not convert string to float: '" \o tok.s \o "'"
KeyErr(k) == "'" \o k \o "'"

\* r.get(k, r.get(alias, 0))
GetOr0(r, k, alias) ==
    IF k \in DOMAIN r THEN r[k]
    ELSE IF alias \in DOMAIN r THEN r[alias]
    ELSE IntTok(0)

Required == <<"policy", "pool", "ops", "pages", "write_frac">>
Counters == <<"logical_reads", "logical_writes", "phys_reads", "phys_writes",
              "page_hits", "page_misses">>
Alias(k) ==
    CASE k = "logical_reads" -> "logical read"
      [] k = "logical_writes" -> "logical write"
      [] k = "phys_reads" -> "physical read"
      [] k = "phys_writes" -> "physical write"
      [] k = "page_hits" -> "hits"
      [] k = "page_misses" -> "misses"

\* the exception, if any, that building r2 raises: the conversions run in source order
ConvErrors(r) ==
    [i \in 1..11 |->
        IF i <= 5
        THEN LET k == Required[i] IN
             IF k \notin DOMAIN r THEN KeyErr(k)
             ELSE IF i = 1 THEN ""
             ELSE IF i = 5 THEN (IF FloatOk(r[k]) THEN "" ELSE FloatErr(r[k]))
             ELSE (IF IntOk(r[k]) THEN "" ELSE IntErr(r[k]))
        ELSE LET v == GetOr0(r, Counters[i - 5], Alias(Counters[i - 5])) IN
             IF IntOk(v) THEN "" ELSE IntErr(v)]

FirstError(r) ==
    LET e == ConvErrors(r) IN
    IF \A i \in 1..11 : e[i] = "" THEN ""
    ELSE e[CHOOSE i \in 1..11 : e[i] # "" /\ \A j \in 1..(i - 1) : e[j] = ""]

Convert(r) ==
    [policy |-> r["policy"].s,
     pool |-> r["pool"].n,
     ops |-> r["ops"].n,
     pages |-> r["pages"].n,
     write_frac |-> FloatVal(r["write_frac"]),
     logical_reads |-> GetOr0(r, "logical_reads", "logical read").n,
     logical_writes |-> GetOr0(r, "logical_writes", "logical write").n,
     phys_reads |-> GetOr0(r, "phys_reads", "physical read").n,
     phys_writes |-> GetOr0(r, "phys_writes", "physical write").n,
     page_hits |-> GetOr0(r, "page_hits", "hits").n,
     page_misses |-> GetOr0(r, "page_misses", "misses").n]

\* the sanity checks, each appended on its own
checksFirstOnly(r2) ==
    IF r2.page_hits + r2.page_misses # r2.ops THEN <<"hitmiss_sum">>
    ELSE IF r2.page_hits < 0 \/ r2.page_misses < 0 THEN <<"hitmiss_negative">>
    ELSE IF r2.phys_reads < 0 \/ r2.phys_writes < 0 THEN <<"phys_negative">>
    ELSE IF ~(0 <= r2.write_frac /\ r2.write_frac <= 100) THEN <<"bad_write_frac">>
    ELSE <<>>

checks(r2) ==
    (IF r2.page_hits + r2.page_misses # r2.ops THEN <<"hitmiss_sum">> ELSE <<>>)
    \o (IF r2.page_hits < 0 \/ r2.page_misses < 0 THEN <<"hitmiss_negative">> ELSE <<>>)
    \o (IF r2.phys_reads < 0 \/ r2.phys_writes < 0 THEN <<"phys_negative">> ELSE <<>>)
    \o (IF ~(0 <= r2.write_frac /\ r2.write_frac <= 100) THEN <<"bad_write_frac">> ELSE <<>>)

\* ','.join(names)
RECURSIVE join(_)
join(names) ==
    IF names = <<>> THEN ""
    ELSE IF Len(names) = 1 THEN names[1]
    ELSE names[1] \o "," \o join(Tail(names))

errorResult(c, tag) ==
    [status |-> "error", error |-> tag,
     pool |-> c[1], policy |-> c[2], ops |-> c[3], pages |-> c[4], write_frac |-> c[5]]

ExitTagUnsigned(rc) == "exit_code_" \o ToString(IF rc < 0 THEN 0 - rc ELSE rc)
ExitTag(rc) == "exit_code_" \o ToString(rc)

\* '=' not in last: the headered table is parsed, else the key=value line
isTable(last) == \A i \in 1..Len(last) : ~last[i].eq

\* the dict r that the output is parsed into
decode(lines) ==
    IF isTable(lines[Len(lines)]) THEN DictReaderLast(lines) ELSE KvDict(lines[Len(lines)])

\* run_single(pool, policy, ops, pages_v, write_frac) when the binary does o
run_single(c, o) ==
    IF o.kind = "timeout" THEN errorResult(c, "timeout")
    ELSE IF o.rc # 0 THEN errorResult(c, ExitTag(o.rc))
    ELSE
    LET lines == NonBlank(o.stdout) IN
    IF lines = <<>> THEN errorResult(c, "empty_stdout")
    ELSE IF isTable(lines[Len(lines)]) /\ Len(lines) = 1 THEN errorResult(c, "empty_stdout")
    ELSE
    LET r == decode(lines) IN
    IF FirstError(r) # ""
    THEN [status |-> "error", error |-> "parse_error_" \o FirstError(r),
          pool |-> c[1], policy |-> c[2], ops |-> c[3], pages |-> c[4], write_frac |-> c[5],
          raw |-> r]
    ELSE
    LET r2 == Convert(r)
        failed == checks(r2)
    IN [policy |-> r2.policy, pool |-> r2.pool, ops |-> r2.ops, pages |-> r2.pages,
        write_frac |-> r2.write_frac,
        logical_reads |-> r2.logical_reads, logical_writes |-> r2.logical_writes,
        phys_reads |-> r2.phys_reads, phys_writes |-> r2.phys_writes,
        page_hits |-> r2.page_hits, page_misses |-> r2.page_misses,
        status |-> IF failed = <<>> THEN "pass" ELSE "fail",
        fail_reasons |-> join(failed)]

(***************************************************************************)
(* The generators alone: each step yields the next configuration.          *)
(***************************************************************************)
GenInit ==
    /\ variant \in {TESTRUNNER, PFEXP}
    /\ \/ variant = TESTRUNNER /\ quick \in BOOLEAN /\ args = NoArgs /\ pc = "gen"
       \/ /\ variant = PFEXP /\ quick = FALSE /\ args \in ArgSets
          \* bins = 1 divides by zero while write_fracs is built
          /\ pc = IF args.bins = 1 THEN "crash" ELSE "gen"
    /\ idx = 0
    /\ cur = NoCfg
    /\ loop = NoLoop
    /\ RunIdle
    /\ SweepIdle

Yield ==
    /\ pc = "gen" /\ variant = TESTRUNNER
    /\ idx < Len(gridOf(quick))
    /\ idx' = idx + 1
    /\ cur' = gridOf(quick)[idx + 1]
    /\ UNCHANGED <<variant, quick, args, pc, loop>>
    /\ UNCHANGED <<runVars, sweepVars>>

GenExhausted ==
    /\ pc = "gen" /\ variant = TESTRUNNER
    /\ idx = Len(gridOf(quick))
    /\ pc' = "done"
    /\ UNCHANGED <<variant, quick, args, idx, cur, loop>>
    /\ UNCHANGED <<runVars, sweepVars>>

PfYield ==
    /\ pc = "gen" /\ variant = PFEXP
    /\ \/ idx = 0 /\ loop' = PfLoopFirst
       \/ idx > 0 /\ PfLoopMore(args, loop) /\ loop' = PfLoopNext(args, loop)
    /\ idx' = idx + 1
    /\ cur' = PfCmd(args, loop')
    /\ UNCHANGED <<variant, quick, args, pc>>
    /\ UNCHANGED <<runVars, sweepVars>>

PfExhausted ==
    /\ pc = "gen" /\ variant = PFEXP
    /\ idx > 0 /\ ~PfLoopMore(args, loop)
    /\ pc' = "done"
    /\ UNCHANGED <<variant, quick, args, idx, cur, loop>>
    /\ UNCHANGED <<runVars, sweepVars>>

GenNext == Yield \/ GenExhausted \/ PfYield \/ PfExhausted

SpecGen == GenInit /\ [][GenNext]_vars

(***************************************************************************)
(* run_single alone, over a bounded family of things the binary can do.    *)
(***************************************************************************)
MaxCount == 3

\* the first configuration of the full grid and (5, LRU, 10, 3, 0.5) of the QUICK grid
RunCfgs == {GridFull[1], GridQuick[26]}

ExitCodes == {1, 2, -9}

WfToks == {DecTok("-0.5", -50), DecTok("0.0", 0), DecTok("0.5", 50), IntTok(1),
           DecTok("1.5", 150), StrTok("x")}

\* the five echoed fields as the binary prints them, ops echoed as o, write_frac as w
Echo(c, o, w) ==
    <<KV("policy", StrTok(c[2])), KV("pool", IntTok(c[1])), KV("ops", IntTok(o)),
      KV("pages", IntTok(c[4])), KV("write_frac", w)>>

LrParts == {<<KV("logical_reads", IntTok(4))>>, <<KV("logical_reads", IntTok(-1))>>,
            <<KV("logical read", IntTok(4))>>, <<KV("logical_reads", StrTok("x"))>>, <<>>}
LwParts == {<<KV("logical_writes", IntTok(6))>>, <<>>}
PrParts == {<<KV("phys_reads", IntTok(2))>>, <<KV("phys_reads", IntTok(-1))>>,
            <<KV("physical read", IntTok(-1))>>}
PwParts == {<<KV("phys_writes", IntTok(3))>>, <<KV("phys_writes", IntTok(-1))>>}
PhParts(c) == {<<KV("page_hits", IntTok(c[3] - d))>> : d \in 0..(MaxCount + 1)}
                 \cup {<<KV("page_hits", IntTok(-1))>>, <<KV("hits", IntTok(c[3] - MaxCount))>>}
PmParts == {<<KV("page_misses", IntTok(m))>> : m \in (-1)..MaxCount}

KvLines(c) ==
    {Echo(c, o, w) \o lr \o lw \o pr \o pw \o ph \o pm :
        o \in {c[3], c[3] - 1}, w \in WfToks, lr \in LrParts, lw \in LwParts,
        pr \in PrParts, pw \in PwParts, ph \in PhParts(c), pm \in PmParts}

\* scenario 1 of the key=value protocol, for configuration c
Scenario1(c) ==
    Echo(c, c[3], DecTok("0.5", 50))
        \o <<KV("logical_reads", IntTok(4)), KV("logical_writes", IntTok(6)),
             KV("phys_reads", IntTok(2)), KV("phys_writes", IntTok(3)),
             KV("page_hits", IntTok(c[3] - MaxCount)), KV("page_misses", IntTok(MaxCount))>>

Without(line, i) == SubSeq(line, 1, i - 1) \o SubSeq(line, i + 1, Len(line))
Names(line) == [i \in 1..Len(line) |-> Bare(StrTok(line[i].k))]
Values(line) == [i \in 1..Len(line) |-> Bare(line[i].v)]
LogLine == <<Bare(StrTok("Opening file..."))>>

\* other shapes of output: a field missing or not a number, log and blank lines around
\* the result line, and the headered table (whole, short, with no row)
OtherStdouts(c) ==
    LET good == Scenario1(c) IN
    {<<>>, << <<>> >>, << <<>>, <<>> >>}
    \cup {<<Without(good, i)>> : i \in 1..Len(good)}
    \cup {<<[good EXCEPT ![i] = KV(good[i].k, StrTok("x"))]>> : i \in 1..Len(good)}
    \cup {<<[good EXCEPT ![i] = KV(good[i].k, DecTok("2.5", 250))]>> : i \in 2..Len(good)}
    \cup {<<LogLine, <<>>, good, <<>> >>, <<good, LogLine>>, <<LogLine>>, <<LogLine, LogLine>>,
          <<good, good>>, <<good \o <<KV("ops", IntTok(c[3] + 1))>> >>}
    \cup {<<Names(good)>>, <<Names(good), Values(good)>>,
          <<LogLine, Names(good), Values(good)>>,
          <<Names(good), Values(good), Values([good EXCEPT ![10] = KV("page_hits", IntTok(0))])>>,
          <<Names(good), Values(good) \o <<Bare(IntTok(9))>> >>}
    \cup {<<Names(good), SubSeq(Values(good), 1, n)>> : n \in 1..(Len(good) - 1)}
    \cup {<<Names(Without(good, i)), Values(Without(good, i))>> : i \in 1..Len(good)}

Outcomes(c) ==
    {[kind |-> "timeout", rc |-> 0, stdout |-> <<>>]}
    \cup {[kind |-> "exit", rc |-> n, stdout |-> <<>>] : n \in ExitCodes}
    \cup {[kind |-> "exit", rc |-> 0, stdout |-> <<l>>] : l \in KvLines(c)}
    \cup {[kind |-> "exit", rc |-> 0, stdout |-> t] : t \in OtherStdouts(c)}

GenIdle ==
    /\ variant = TESTRUNNER /\ quick = FALSE /\ args = NoArgs
    /\ idx = 0 /\ cur = NoCfg /\ loop = NoLoop

RunInit ==
    /\ GenIdle
    /\ SweepIdle
    /\ pc = "call"
    /\ cfg \in RunCfgs
    /\ outcome \in Outcomes(cfg)
    /\ res = NoRes

RunSingle ==
    /\ pc = "call"
    /\ res' = run_single(cfg, outcome)
    /\ pc' = "returned"
    /\ UNCHANGED <<variant, quick, args, idx, cur, loop, cfg, outcome>>
    /\ UNCHANGED sweepVars

RunNext == RunSingle

SpecRun == RunInit /\ [][RunNext]_vars

(***************************************************************************)
(* The sweeps.  pf_task1_testrunner is run over the first MaxCombos        *)
(* configurations of its grid.                                             *)
(***************************************************************************)
MaxCombos == 3

combos(q) == SubSeq(gridOf(q), 1, MaxCombos)

header == <<"policy", "pool", "ops", "pages", "write_frac", "logical_reads",
            "logical_writes", "phys_reads", "phys_writes", "page_hits", "page_misses",
            "status", "fail_reasons">>

\* ensure_binary(): present and executable, or make builds it
ensure_binary(e) == e.bin \/ (e.make /\ e.built)

\* the row main writes for res; the six counter cells are '' for an error
rowOf(c, r) ==
    IF r.status = "error"
    THEN [policy |-> c[2], pool |-> c[1], ops |-> c[3], pages |-> c[4], write_frac |-> c[5],
          counters |-> <<>>, status |-> "error", fail_reasons |-> r.error]
    ELSE [policy |-> r.policy, pool |-> r.pool, ops |-> r.ops, pages |-> r.pages,
          write_frac |-> r.write_frac,
          counters |-> <<r.logical_reads, r.logical_writes, r.phys_reads, r.phys_writes,
                         r.page_hits, r.page_misses>>,
          status |-> r.status, fail_reasons |-> r.fail_reasons]

\* the tallies <<passes, fails, errors>> after res
tallyErrorAsFail(t, r) ==
    IF r.status = "pass" THEN <<t[1] + 1, t[2], t[3]>> ELSE <<t[1], t[2] + 1, t[3]>>
tally(t, r) ==
    IF r.status = "error" THEN <<t[1], t[2], t[3] + 1>>
    ELSE IF r.status = "pass" THEN <<t[1] + 1, t[2], t[3]>>
    ELSE <<t[1], t[2] + 1, t[3]>>

\* if fails or errors: sys.exit(1) else: sys.exit(0)
exitStatusFailsOnly(f, e) == IF f # 0 THEN 1 ELSE 0
exitStatus(f, e) == IF f # 0 \/ e # 0 THEN 1 ELSE 0

Stdout(t) == [kind |-> "exit", rc |-> 0, stdout |-> t]
\* what the binary does per invocation of the sweep: time out, fail, print nothing, print
\* a passing line, a line with a wrong hit count, a line with no policy, a bare header
SweepOutcomes(c) ==
    LET good == Scenario1(c) IN
    {[kind |-> "timeout", rc |-> 0, stdout |-> <<>>],
     [kind |-> "exit", rc |-> 1, stdout |-> <<>>],
     Stdout(<<>>),
     Stdout(<<good>>),
     Stdout(<<[good EXCEPT ![10] = KV("page_hits", IntTok(c[3] - MaxCount - 1))]>>),
     Stdout(<<Without(good, 1)>>),
     Stdout(<<Names(good)>>)}

TrEnvs == {[bin |-> TRUE, make |-> FALSE, built |-> FALSE, data |-> TRUE, mpl |-> TRUE],
           [bin |-> FALSE, make |-> TRUE, built |-> TRUE, data |-> TRUE, mpl |-> TRUE],
           [bin |-> FALSE, make |-> TRUE, built |-> FALSE, data |-> TRUE, mpl |-> TRUE],
           [bin |-> FALSE, make |-> FALSE, built |-> FALSE, data |-> TRUE, mpl |-> TRUE]}

\* main() of pf_task1_testrunner up to the loop
TrStart ==
    /\ pc = "start" /\ variant = TESTRUNNER
    /\ IF ~ensure_binary(env)
       THEN /\ exitCode' = 2
            /\ pc' = "exited"
            /\ UNCHANGED <<csv, passes, fails, errors>>
       ELSE /\ csv' = <<header>>
            /\ passes' = 0 /\ fails' = 0 /\ errors' = 0
            /\ pc' = "loop"
            /\ UNCHANGED exitCode
    /\ UNCHANGED <<variant, quick, args, idx, cur, loop, runVars>>
    /\ UNCHANGED <<env, pending, report, calls, aggregated, running, taken, plots>>

\* an iteration that lets the failure of an invocation end the process
TrIterateAborting ==
    /\ pc = "loop" /\ variant = TESTRUNNER
    /\ idx < Len(combos(quick))
    /\ \E o \in SweepOutcomes(combos(quick)[idx + 1]) :
          LET c == combos(quick)[idx + 1]
              r == run_single(c, o)
              t == tally(<<passes, fails, errors>>, r)
          IN /\ cur' = c /\ cfg' = c /\ outcome' = o /\ res' = r
             /\ calls' = Append(calls, c)
             /\ idx' = idx + 1
             /\ IF o.kind = "timeout" \/ o.rc # 0
                THEN /\ exitCode' = 1 /\ pc' = "exited"
                     /\ UNCHANGED <<passes, fails, errors, csv>>
                ELSE /\ passes' = t[1] /\ fails' = t[2] /\ errors' = t[3]
                     /\ csv' = Append(csv, rowOf(c, r))
                     /\ pc' = "loop" /\ UNCHANGED exitCode
    /\ UNCHANGED <<variant, quick, args, loop>>
    /\ UNCHANGED <<env, pending, report, aggregated, running, taken, plots>>

\* one iteration of the loop: run_single, the tallies, the row appended to the csv
TrIterate ==
    /\ pc = "loop" /\ variant = TESTRUNNER
    /\ idx < Len(combos(quick))
    /\ \E o \in SweepOutcomes(combos(quick)[idx + 1]) :
          LET c == combos(quick)[idx + 1]
              r == run_single(c, o)
              t == tally(<<passes, fails, errors>>, r)
          IN /\ cur' = c /\ cfg' = c /\ outcome' = o /\ res' = r
             /\ calls' = Append(calls, c)
             /\ passes' = t[1] /\ fails' = t[2] /\ errors' = t[3]
             /\ csv' = Append(csv, rowOf(c, r))
             /\ idx' = idx + 1
             /\ pc' = "loop"
    /\ UNCHANGED <<variant, quick, args, loop>>
    /\ UNCHANGED <<env, pending, report, exitCode, aggregated, running, taken, plots>>

\* after the loop: the summary report and the exit status
TrFinish ==
    /\ pc = "loop" /\ variant = TESTRUNNER
    /\ idx = Len(combos(quick))
    /\ report' = [total |-> Len(combos(quick)), passes |-> passes, fails |-> fails,
                  errors |-> errors]
    /\ exitCode' = exitStatus(fails, errors)
    /\ pc' = "exited"
    /\ UNCHANGED <<variant, quick, args, idx, cur, loop, runVars>>
    /\ UNCHANGED <<env, csv, pending, passes, fails, errors, calls, aggregated, running,
                   taken, plots>>

(***************************************************************************)
(* run_task3_experiments.                                                  *)
(***************************************************************************)
SIZES == <<2000, 5000, 10000>>

t3header == <<"Method", "n", "build-time-ms", "phys_reads", "phys_writes", "logical_reads",
              "logical_writes", "page_hits", "page_misses">>

\* l.startswith('Method,')
startsMethod(l) == Len(l) >= 2 /\ PartText(l[1]) = "Method"

\* rows = lines[i+1 : i+1+3] for the first header line i, [] when there is none
blockRows(lines) ==
    LET hs == {i \in 1..Len(lines) : startsMethod(lines[i])} IN
    IF hs = {} THEN <<>>
    ELSE LET i == CHOOSE h \in hs : \A g \in hs : h <= g
             last == IF i + 3 <= Len(lines) THEN i + 3 ELSE Len(lines)
         IN SubSeq(lines, i + 1, last)

rowInts(r) == \A j \in 2..Len(r) : IntOk(Cell(r[j]))
resultOf(n, r) == [method |-> PartText(r[1]), n |-> n,
                   vals |-> [j \in 1..(Len(r) - 1) |-> Cell(r[j + 1]).n]]

\* run_one(n, data_path): None, the list of result tuples, or the ValueError of int()
run_one(n, o) ==
    IF o.rc # 0 THEN [kind |-> "None", results |-> <<>>]
    ELSE
    LET rows == blockRows(NonBlank(o.stdout)) IN
    IF Len(rows) < 3 THEN [kind |-> "None", results |-> <<>>]
    ELSE
    LET shaped == SelectSeq(rows, LAMBDA r : Len(r) = 8) IN
    IF \E j \in 1..Len(shaped) : ~rowInts(shaped[j])
    THEN [kind |-> "ValueError", results |-> <<>>]
    ELSE [kind |-> "list", results |-> [j \in 1..Len(shaped) |-> resultOf(n, shaped[j])]]

MethodHeader == <<Bare(StrTok("Method")), Bare(StrTok("time_ms")), Bare(StrTok("phys_reads")),
                  Bare(StrTok("phys_writes")), Bare(StrTok("logical_reads")),
                  Bare(StrTok("logical_writes")), Bare(StrTok("page_hits")),
                  Bare(StrTok("page_misses"))>>
MethodRow(m) == <<Bare(StrTok(m))>> \o [j \in 1..7 |-> Bare(IntTok(j))]

\* what test_task3 does per size: fail, the block of three rows (with log lines around
\* it), two rows only, a row one field short, a row with a non-number, no block at all
T3Outcomes ==
    LET a == MethodRow("bulk")
        b == MethodRow("incremental")
        c == MethodRow("sorted")
    IN {[kind |-> "exit", rc |-> 1, stdout |-> <<>>],
        Stdout(<<LogLine, <<>>, MethodHeader, a, b, c, LogLine>>),
        Stdout(<<MethodHeader, a, b>>),
        Stdout(<<MethodHeader, a, SubSeq(b, 1, 7), c>>),
        Stdout(<<MethodHeader, a, b, [c EXCEPT ![2] = Bare(DecTok("1.5", 150))]>>),
        Stdout(<<LogLine>>)}

T3Envs == {[bin |-> b, make |-> FALSE, built |-> FALSE, data |-> d, mpl |-> TRUE] :
              b \in BOOLEAN, d \in BOOLEAN}

\* main() of run_task3_experiments up to the loop
T3Start ==
    /\ pc = "start" /\ variant = TASK3
    /\ IF ~env.bin \/ ~env.data
       THEN exitCode' = 1 /\ pc' = "exited"
       ELSE pc' = "loop" /\ UNCHANGED exitCode
    /\ UNCHANGED <<variant, quick, args, idx, cur, loop, runVars>>
    /\ UNCHANGED <<env, csv, pending, passes, fails, errors, report, calls, aggregated,
                   running, taken, plots>>

\* one iteration over SIZES: a failed run breaks out of the loop
T3Run ==
    /\ pc = "loop" /\ variant = TASK3
    /\ idx < Len(SIZES)
    /\ \E o \in T3Outcomes :
          LET n == SIZES[idx + 1]
              r == run_one(n, o)
          IN /\ cur' = <<n>> /\ outcome' = o
             /\ calls' = Append(calls, <<n>>)
             /\ idx' = idx + 1
             /\ CASE r.kind = "ValueError" ->
                       /\ exitCode' = 1 /\ pc' = "exited" /\ UNCHANGED aggregated
                  [] r.kind = "None" ->
                       /\ pc' = "save" /\ UNCHANGED <<exitCode, aggregated>>
                  [] r.kind = "list" ->
                       /\ aggregated' = aggregated \o r.results
                       /\ pc' = "loop" /\ UNCHANGED exitCode
    /\ UNCHANGED <<variant, quick, args, loop, cfg, res>>
    /\ UNCHANGED <<env, csv, pending, passes, fails, errors, report, running, taken, plots>>

\* after the loop: the aggregated csv is written in one go, or 'Could not save CSV'
T3Save ==
    /\ variant = TASK3
    /\ \/ pc = "loop" /\ idx = Len(SIZES)
       \/ pc = "save"
    /\ \/ csv' = <<t3header>> \o aggregated
       \/ UNCHANGED csv
    /\ exitCode' = 0
    /\ pc' = "exited"
    /\ UNCHANGED <<variant, quick, args, idx, cur, loop, runVars>>
    /\ UNCHANGED <<env, pending, passes, fails, errors, report, calls, aggregated, running,
                   taken, plots>>

(***************************************************************************)
(* run_pf_experiments: the binary appends its row to the results file the  *)
(* script holds open.  The script's header row stays in its writer's       *)
(* buffer until the file is closed, so the binary's rows are the only      *)
(* lines on disk during the sweep.  A line on disk is [by, cells]: by is   *)
(* the invocation that appended it (0 for the script).                     *)
(***************************************************************************)
MaxAppends == 1

pf_header == <<"policy", "pool", "ops", "pages", "write_frac", "logical_reads",
               "logical_writes", "phys_reads", "phys_writes", "page_hits", "page_misses">>

SweepArgs == {a \in ArgSets : a.bins <= 2 /\ a.pools \in {<<5>>, <<5, 10>>}}

PfEnvs == {[bin |-> b, make |-> FALSE, built |-> FALSE, data |-> TRUE, mpl |-> m] :
              b \in BOOLEAN, m \in BOOLEAN}

\* the row of invocation n: the echoed arguments, then six counters (here n .. n+5)
SinkRow(c, n) ==
    <<StrTok(c[2]), IntTok(c[1]), IntTok(c[3]), IntTok(c[4]), DecTok("", c[5][1])>>
        \o [j \in 1..6 |-> IntTok(n + j - 1)]
\* what the binary may append: its row, the row cut short, the row with a non-number
SinkRows(c, n) ==
    {SinkRow(c, n), SubSeq(SinkRow(c, n), 1, 8), [SinkRow(c, n) EXCEPT ![7] = StrTok("nan")]}

\* closing the results file writes the buffered header at offset 0, over the start of
\* what the binary appended (kept here as the first line being replaced)
closed(file, buffered) ==
    IF buffered = <<>> THEN file
    ELSE IF file = <<>> THEN buffered
    ELSE buffered \o Tail(file)

\* last = list(csv.reader(f))[-1]
lastRowFirst(file) == file[1]
lastRow(file) == file[Len(file)]

\* int(last[5]) .. int(last[10]) succeed
readable(file) ==
    /\ file # <<>>
    /\ Len(lastRow(file).cells) >= 11
    /\ \A j \in 6..11 : IntOk(lastRow(file).cells[j])

\* the script up to its loops
PfStart ==
    /\ pc = "start" /\ variant = PFEXP
    /\ IF ~env.mpl \/ args.bins = 1
       THEN \* the matplotlib import raises, or write_fracs divides by zero
            /\ exitCode' = 1 /\ pc' = "exited"
            /\ UNCHANGED <<csv, pending>>
       ELSE /\ csv' = <<>>
            /\ pending' = <<[by |-> 0, cells |-> pf_header]>>
            /\ pc' = "loop"
            /\ UNCHANGED exitCode
    /\ UNCHANGED <<variant, quick, args, idx, cur, loop, runVars>>
    /\ UNCHANGED <<env, passes, fails, errors, report, calls, aggregated, running, taken,
                   plots>>

\* the binary is started for the next (policy, pool, wf); check_output waits for it
PfInvoke ==
    /\ pc = "loop" /\ variant = PFEXP
    /\ \/ idx = 0 /\ loop' = PfLoopFirst
       \/ idx > 0 /\ PfLoopMore(args, loop) /\ loop' = PfLoopNext(args, loop)
    /\ cur' = PfCmd(args, loop')
    /\ calls' = Append(calls, PfCmd(args, loop'))
    /\ IF env.bin
       THEN running' = TRUE /\ pc' = "wait" /\ UNCHANGED <<exitCode, csv, pending>>
       ELSE \* FileNotFoundError
            /\ exitCode' = 1 /\ pc' = "exited" /\ UNCHANGED running
            /\ csv' = closed(csv, pending) /\ pending' = <<>>
    /\ UNCHANGED <<variant, quick, args, idx, runVars>>
    /\ UNCHANGED <<env, passes, fails, errors, report, aggregated, taken, plots>>

\* the running binary appends a line to the results file
BinAppend ==
    /\ pc = "wait" /\ running
    /\ Cardinality({i \in 1..Len(csv) : csv[i].by = Len(calls)}) < MaxAppends
    /\ \E row \in SinkRows(cur, Len(calls)) :
          csv' = Append(csv, [by |-> Len(calls), cells |-> row])
    /\ UNCHANGED <<genVars, runVars>>
    /\ UNCHANGED <<env, pending, passes, fails, errors, report, exitCode, calls, aggregated,
                   running, taken, plots>>

\* the binary exits: nonzero is CalledProcessError and sys.exit(1)
BinExit ==
    /\ pc = "wait" /\ running
    /\ running' = FALSE
    /\ \E rc \in {0, 1} :
          /\ outcome' = [kind |-> "exit", rc |-> rc, stdout |-> <<>>]
          /\ IF rc # 0
             THEN /\ exitCode' = 1 /\ pc' = "exited"
                  /\ csv' = closed(csv, pending) /\ pending' = <<>>
             ELSE pc' = "read" /\ UNCHANGED <<exitCode, csv, pending>>
    /\ UNCHANGED <<variant, quick, args, idx, cur, loop, cfg, res>>
    /\ UNCHANGED <<env, passes, fails, errors, report, calls, aggregated, taken, plots>>

\* the last line of the results file is read back as this invocation's counters;
\* after the last write mix of a (policy, pool) its figure is saved
PfRead ==
    /\ pc = "read" /\ variant = PFEXP
    /\ IF readable(csv)
       THEN /\ taken' = Append(taken,
                   [inv |-> Len(calls), by |-> lastRow(csv).by,
                    counters |-> [j \in 1..6 |-> lastRow(csv).cells[j + 5].n]])
            /\ plots' = IF loop.wi = args.bins THEN Append(plots, <<cur[2], cur[1]>>)
                        ELSE plots
            /\ idx' = idx + 1
            /\ pc' = "loop"
            /\ UNCHANGED <<exitCode, csv, pending>>
       ELSE \* IndexError or ValueError
            /\ exitCode' = 1 /\ pc' = "exited"
            /\ csv' = closed(csv, pending) /\ pending' = <<>>
            /\ UNCHANGED <<taken, plots, idx>>
    /\ UNCHANGED <<variant, quick, args, cur, loop, runVars>>
    /\ UNCHANGED <<env, passes, fails, errors, report, calls, aggregated, running>>

\* the loops are exhausted: the results file is closed and the script ends
PfDone ==
    /\ pc = "loop" /\ variant = PFEXP
    /\ idx > 0 /\ ~PfLoopMore(args, loop)
    /\ csv' = closed(csv, pending) /\ pending' = <<>>
    /\ exitCode' = 0
    /\ pc' = "exited"
    /\ UNCHANGED <<variant, quick, args, idx, cur, loop, runVars>>
    /\ UNCHANGED <<env, passes, fails, errors, report, calls, aggregated, running, taken,
                   plots>>

SweepInit ==
    /\ variant \in {TESTRUNNER, TASK3, PFEXP}
    /\ \/ variant = TESTRUNNER /\ quick \in BOOLEAN /\ env \in TrEnvs /\ args = NoArgs
       \/ variant = TASK3 /\ quick = FALSE /\ env \in T3Envs /\ args = NoArgs
       \/ variant = PFEXP /\ quick = FALSE /\ env \in PfEnvs /\ args \in SweepArgs
    /\ pc = "start"
    /\ idx = 0 /\ cur = NoCfg /\ loop = NoLoop
    /\ RunIdle
    /\ csv = <<>> /\ pending = <<>>
    /\ passes = 0 /\ fails = 0 /\ errors = 0
    /\ report = NoReport /\ exitCode = -1 /\ calls = <<>>
    /\ aggregated = <<>> /\ running = FALSE /\ taken = <<>> /\ plots = <<>>

SweepNext ==
    \/ TrStart \/ TrIterate \/ TrFinish
    \/ T3Start \/ T3Run \/ T3Save
    \/ PfStart \/ PfInvoke \/ BinAppend \/ BinExit \/ PfRead \/ PfDone

SpecSweep == SweepInit /\ [][SweepNext]_vars

(***************************************************************************)
(* The sweeps with a tested binary that may never exit.  subprocess.run    *)
(* with timeout=20 (pf_task1_testrunner) kills the binary and raises       *)
(* TimeoutExpired, the "timeout" outcome of TrIterate; subprocess.run      *)
(* without a timeout (run_task3_experiments) and check_output              *)
(* (run_pf_experiments) return only when the binary exits.  The scripts'   *)
(* own steps are taken whenever they can be; nothing makes the binary      *)
(* exit.                                                                   *)
(***************************************************************************)
\* run_one's subprocess.run on a test_task3 that does not exit: it waits
T3Blocked ==
    /\ pc = "loop" /\ variant = TASK3
    /\ idx < Len(SIZES)
    /\ cur' = <<SIZES[idx + 1]>>
    /\ calls' = Append(calls, <<SIZES[idx + 1]>>)
    /\ running' = TRUE
    /\ pc' = "run_one"
    /\ UNCHANGED <<variant, quick, args, idx, loop, runVars>>
    /\ UNCHANGED <<env, csv, pending, passes, fails, errors, report, exitCode, aggregated,
                   taken, plots>>

\* the steps that are the scripts' own, or that return within the timeout
Harness ==
    \/ TrStart \/ TrIterate \/ TrFinish
    \/ T3Start \/ T3Run \/ T3Save
    \/ PfStart \/ PfInvoke \/ PfRead \/ PfDone

LiveNext == SweepNext \/ T3Blocked

SpecLive == SweepInit /\ [][LiveNext]_vars /\ WF_vars(Harness)

(***************************************************************************)
(* What run_single returns.                                                *)
(***************************************************************************)
Returned == pc = "returned"
IsRecord(r) == r.status \in {"pass", "fail"}
IsError(r) == r.status = "error"

OutLines == NonBlank(outcome.stdout)
Exited0 == outcome.kind = "exit" /\ outcome.rc = 0
\* nothing but blank lines, or a table header with no data row under it
NoOutput == Exited0 /\ (OutLines = <<>> \/ (Len(OutLines) = 1 /\ isTable(OutLines[1])))

OutTokens ==
    {None} \cup {Cell(OutLines[i][j]) : <<i, j>> \in
                    {<<i, j>> \in (1..Len(OutLines)) \X (1..12) : j <= Len(OutLines[i])}}
                \cup {OutLines[i][j].v : <<i, j>> \in
                    {<<i, j>> \in (1..Len(OutLines)) \X (1..12) : j <= Len(OutLines[i])}}
ExceptionTexts ==
    {KeyErr(Required[i]) : i \in 1..5}
        \cup {IntErr(t) : t \in OutTokens} \cup {FloatErr(t) : t \in OutTokens}

\* C3 as stated: a run that yields no record is an error record tagged exit_code_<N>
\* (nonzero exit N), timeout, empty_output (no output) or parse_error (undecodable),
\* and no other tag is recorded.
C3_PrescribedKinds ==
    Returned =>
        /\ res.status \in {"pass", "fail", "error"}
        /\ outcome.kind = "timeout" => IsError(res) /\ res.error = "timeout"
        /\ (outcome.kind = "exit" /\ outcome.rc # 0) =>
              IsError(res) /\ res.error = "exit_code_" \o ToString(outcome.rc)
        /\ NoOutput => IsError(res) /\ res.error = "empty_output"
        /\ (IsError(res) /\ Exited0 /\ ~NoOutput) => res.error = "parse_error"

\* C3 amended: a run that yields no record is an error record tagged exit_code_<N>
\* (nonzero exit N), timeout, empty_stdout (only blank lines, or a table header with no
\* row) or parse_error_<text of the exception> (undecodable), and no other tag is recorded.
C3_FailureKinds ==
    Returned =>
        /\ res.status \in {"pass", "fail", "error"}
        /\ outcome.kind = "timeout" => IsError(res) /\ res.error = "timeout"
        /\ (outcome.kind = "exit" /\ outcome.rc # 0) =>
              IsError(res) /\ res.error = "exit_code_" \o ToString(outcome.rc)
        /\ NoOutput => IsError(res) /\ res.error = "empty_stdout"
        /\ (IsError(res) /\ Exited0 /\ ~NoOutput) =>
              res.error \in {"parse_error_" \o m : m \in ExceptionTexts}

\* an undecodable line (no policy field) has been tagged
C3_Witness ==
    /\ Returned /\ IsError(res) /\ Exited0 /\ ~NoOutput
    /\ res.error = "parse_error_'policy'"

CheckNames == <<"hitmiss_sum", "hitmiss_negative", "phys_negative", "bad_write_frac">>
CheckHolds(n, r) ==
    CASE n = "hitmiss_sum" -> r.page_hits + r.page_misses # r.ops
      [] n = "hitmiss_negative" -> r.page_hits < 0 \/ r.page_misses < 0
      [] n = "phys_negative" -> r.phys_reads < 0 \/ r.phys_writes < 0
      [] n = "bad_write_frac" -> r.write_frac < 0 \/ r.write_frac > 100
Violations(r) == SelectSeq(CheckNames, LAMBDA n : CheckHolds(n, r))

C5_SumIsConfiguredOps ==
    (Returned /\ res.status = "pass") => res.page_hits + res.page_misses = cfg[3]

\* C6: an accepted record has all six counters non-negative.
C6_AcceptedCountersNonNegative ==
    (Returned /\ res.status = "pass") =>
        /\ res.logical_reads >= 0 /\ res.logical_writes >= 0
        /\ res.phys_reads >= 0 /\ res.phys_writes >= 0
        /\ res.page_hits >= 0 /\ res.page_misses >= 0

\* C7: a record is only built when every one of the six counters is present in the
\* output under an accepted spelling and parses as an integer.
C7_CountersPresent ==
    (Returned /\ IsRecord(res)) =>
        \A i \in 1..6 :
            LET r == decode(OutLines) IN
            \/ Counters[i] \in DOMAIN r /\ IntOk(r[Counters[i]])
            \/ Counters[i] \notin DOMAIN r /\ Alias(Counters[i]) \in DOMAIN r
                  /\ IntOk(r[Alias(Counters[i])])

(***************************************************************************)
(* Generation order.                                                       *)
(***************************************************************************)
PosIn(seq, v) == IF \E i \in 1..Len(seq) : seq[i] = v
                 THEN CHOOSE i \in 1..Len(seq) : seq[i] = v
                 ELSE 0

\* rank (from 0) of the position tuple pos in row-major order, first axis slowest
RECURSIVE RowMajor(_, _, _)
RowMajor(pos, radix, acc) ==
    IF pos = <<>> THEN acc
    ELSE RowMajor(Tail(pos), Tail(radix), acc * Head(radix) + (Head(pos) - 1))

TrPositions ==
    <<PosIn(pools(quick), cur[1]), PosIn(policies, cur[2]), PosIn(ops_list(quick), cur[3]),
      PosIn(pages(quick), cur[4]), PosIn(write_fracs(quick), cur[5])>>
TrRadix ==
    <<Len(pools(quick)), Len(policies), Len(ops_list(quick)), Len(pages(quick)),
      Len(write_fracs(quick))>>
TrSize == Len(pools(quick)) * Len(policies) * Len(ops_list(quick)) * Len(pages(quick))
              * Len(write_fracs(quick))

\* pool outermost, then policy, operation count, page count, write fraction innermost
PoolOutermost ==
    IF variant = TESTRUNNER
    THEN /\ \A i \in 1..5 : TrPositions[i] >= 1
         /\ idx - 1 = RowMajor(TrPositions, TrRadix, 0)
    ELSE idx - 1 = RowMajor(<<loop.qi, loop.pi, 1, 1, loop.wi>>,
                            <<Len(args.pools), Len(pf_policies), 1, 1, args.bins>>, 0)

\* C9 as stated: every variant yields the full product, each combination once, with
\* pool size the outermost axis, then policy, operation count, page count and write
\* fraction the innermost.
C9_PoolOutermostEverywhere ==
    (pc \in {"gen", "done"} /\ idx >= 1) => PoolOutermost

\* C9 amended: pf_task1_testrunner (full and QUICK grid alike) yields the full product,
\* each combination exactly once, pool outermost down to write fraction innermost;
\* run_pf_experiments yields every (policy, pool, write mix) position once with the
\* policy outermost, then the pool, then the write mix.
C9_GenerationOrder ==
    /\ (variant = TESTRUNNER /\ idx >= 1) =>
          /\ PoolOutermost
          /\ \A j \in 1..Len(gridOf(quick)) : gridOf(quick)[j] = cur => j = idx
    /\ (variant = TESTRUNNER /\ pc = "done") => idx = TrSize
    /\ (variant = PFEXP /\ pc \in {"gen", "done"} /\ idx >= 1) =>
          /\ cur = PfCmd(args, loop)
          /\ idx - 1 = RowMajor(<<loop.pi, loop.qi, loop.wi>>,
                                <<Len(pf_policies), Len(args.pools), args.bins>>, 0)
    /\ (variant = PFEXP /\ pc = "done") => idx = Len(pf_policies) * Len(args.pools) * args.bins

\* second position reached on every axis of the full grid, and the sweep later exhausted
C9_Witness ==
    /\ variant = TESTRUNNER /\ ~quick
    /\ cur = <<1, "MRU", 5, 2, 1>>

(***************************************************************************)
(* The sweeps: exit status, coverage of the grid, the results artifact.    *)
(***************************************************************************)
Exited == pc = "exited"
CountRows(st) == Cardinality({i \in 2..Len(csv) : csv[i].status = st})

BinaryUnavailable == IF variant = TESTRUNNER THEN ~ensure_binary(env) ELSE ~env.bin
\* the script got as far as its sweep
Began ==
    CASE variant = TESTRUNNER -> ensure_binary(env)
      [] variant = TASK3 -> env.bin /\ env.data
      [] variant = PFEXP -> env.bin /\ env.mpl /\ args.bins >= 2
PfTotal == Len(pf_policies) * Len(args.pools) * args.bins
Generated ==
    CASE variant = TESTRUNNER -> Len(combos(quick))
      [] variant = TASK3 -> Len(SIZES)
      [] variant = PFEXP -> PfTotal
T3LastKind == IF calls = <<>> THEN "list" ELSE run_one(SIZES[Len(calls)], outcome).kind
\* every configuration of the sweep came out well
AllPassed ==
    CASE variant = TESTRUNNER ->
            Len(csv) = Len(combos(quick)) + 1 /\ CountRows("pass") = Len(combos(quick))
      [] variant = TASK3 -> Len(calls) = Len(SIZES) /\ T3LastKind = "list"
      [] variant = PFEXP -> Len(taken) = PfTotal

\* C1 as stated: the exit code is 0 exactly when every configuration passed, 1 exactly
\* when the sweep ran and some configuration failed or errored, 2 exactly when the
\* tested binary is missing and cannot be built, and then nothing is invoked.
C1_ExitCodeSignalsHealth ==
    (Exited /\ variant \in {TESTRUNNER, TASK3}) =>
        /\ exitCode = 2 <=> BinaryUnavailable
        /\ exitCode = 2 => calls = <<>>
        /\ exitCode = 0 <=> (~BinaryUnavailable /\ AllPassed)
        /\ exitCode = 1 <=> (~BinaryUnavailable /\ ~AllPassed)

\* C1 amended: pf_task1_testrunner exits 0 exactly when every configuration was classified
\* pass, 1 exactly when the sweep ran and some configuration was fail or error, 2 exactly
\* when the binary is missing and cannot be built (nothing invoked).
\* run_task3_experiments never exits 2: it exits 1 when the binary or the data file is
\* missing or a result row does not parse, else 0 (also after a failed run ended the sweep).
C1_ExitCodes ==
    Exited =>
        /\ variant = TESTRUNNER =>
              /\ exitCode = 2 <=> ~ensure_binary(env)
              /\ exitCode = 2 => calls = <<>> /\ csv = <<>>
              /\ exitCode = 0 <=> (ensure_binary(env) /\ AllPassed)
              /\ exitCode = 1 <=> (ensure_binary(env) /\ ~AllPassed)
        /\ variant = TASK3 =>
              /\ exitCode = 1 <=> (~env.bin \/ ~env.data \/ T3LastKind = "ValueError")
              /\ exitCode = 0 <=> (env.bin /\ env.data /\ T3LastKind # "ValueError")

\* the testrunner's sweep ended with errors only, and the rest passing
C1_Witness ==
    /\ Exited /\ variant = TESTRUNNER
    /\ errors > 0 /\ fails = 0 /\ passes > 0
    /\ exitCode = 1

\* results on record: rows of the testrunner's csv, sizes with a result list, rows read back
Recorded ==
    CASE variant = TESTRUNNER -> Len(csv) - 1
      [] variant = TASK3 -> IF T3LastKind = "list" THEN Len(calls) ELSE Len(calls) - 1
      [] variant = PFEXP -> Len(taken)

\* C2 as stated: whatever the outcome of any invocation, every generated configuration is
\* attempted exactly once and recorded: recorded outcomes = generated configurations.
C2_NoErrorAbortsSweep ==
    (Exited /\ Began) =>
        /\ Len(calls) = Generated
        /\ Recorded = Generated

\* C2 amended: in pf_task1_testrunner no outcome of an invocation aborts the sweep: the
\* configurations are attempted once each in order and each is recorded.  In
\* run_task3_experiments the first failed run ends the sweep, and in run_pf_experiments
\* the first failed invocation or unreadable row ends the process: what was attempted is
\* a prefix of the sweep, complete only if nothing failed.
C2_SweepCoverage ==
    /\ (variant = TESTRUNNER /\ pc # "start" /\ Began) =>
          /\ calls = SubSeq(combos(quick), 1, idx)
          /\ Len(csv) - 1 = idx
          /\ Exited => idx = Len(combos(quick))
    /\ (variant = TASK3 /\ Exited /\ Began) =>
          /\ calls = [i \in 1..Len(calls) |-> <<SIZES[i]>>]
          /\ Len(calls) >= 1 /\ Len(calls) <= Len(SIZES)
          /\ Len(calls) < Len(SIZES) => T3LastKind # "list"
    /\ (variant = PFEXP /\ Exited /\ Began) =>
          /\ Len(calls) >= 1 /\ Len(calls) <= PfTotal
          /\ Len(taken) \in {Len(calls), Len(calls) - 1}
          /\ exitCode = 0 => Len(taken) = PfTotal

\* the testrunner's first invocation failed and the sweep was still completed
C2_Witness ==
    /\ Exited /\ variant = TESTRUNNER
    /\ Len(csv) = Len(combos(quick)) + 1
    /\ csv[2].status = "error" /\ csv[2].fail_reasons = "timeout"
    /\ csv[Len(csv)].status = "pass"

\* C8 as stated: invocations are sequential and the counters attributed to invocation N
\* are always those of the row appended by invocation N, never an earlier row.
C8_OwnRowTaken ==
    variant = PFEXP =>
        /\ running => Len(taken) = Len(calls) - 1
        /\ \A i \in 1..Len(taken) : taken[i].inv = i /\ taken[i].by = i

\* C8 amended: invocations are sequential; what is attributed to invocation N is the last
\* line of the sink, read after N has returned and before N+1 starts; it is the row
\* appended by N whenever N appended one, and never the header (not on disk during the
\* sweep); an invocation that appends nothing is given an earlier invocation's row.
C8_LastLineTaken ==
    variant = PFEXP =>
        /\ running => pc = "wait" /\ Len(taken) = Len(calls) - 1
        /\ pc = "read" => ~running /\ Len(taken) = Len(calls) - 1
        /\ pc = "loop" => ~running /\ Len(taken) = Len(calls)
        /\ pc \in {"wait", "read", "loop"} => \A k \in 1..Len(csv) : csv[k].by >= 1
        /\ \A i \in 1..Len(taken) :
              /\ taken[i].inv = i
              /\ taken[i].by >= 1 /\ taken[i].by <= i
              /\ taken[i].counters = [j \in 1..6 |-> taken[i].by + j - 1]
              /\ (\E k \in 1..Len(csv) : csv[k].by = i) => taken[i].by = i

\* two invocations each appended a row and each was given its own
C8_Witness ==
    /\ variant = PFEXP /\ pc = "loop"
    /\ Len(taken) >= 2
    /\ taken[1].by = 1 /\ taken[2].by = 2

\* C10 as stated: after k configurations the results artifact holds the header plus the
\* k configurations' rows (appended as the sweep goes), each configuration incremented
\* exactly one tally, passes + fails + errors = k, and the summary total is the number
\* of generated configurations.
C10_IncrementalArtifact ==
    (variant \in {TESTRUNNER, TASK3} /\ pc # "start" /\ Began) =>
        /\ variant = TESTRUNNER =>
              /\ Len(csv) = idx + 1 /\ csv[1] = header
              /\ passes + fails + errors = idx
              /\ Exited => report.total = Generated
        /\ (variant = TASK3 /\ idx >= 1) => csv = <<t3header>> \o aggregated

\* C10 amended: in pf_task1_testrunner, after k configurations the csv holds the header
\* plus exactly k rows in generation order, each configuration incremented exactly one
\* of the tallies (an error only the error tally), passes + fails + errors = k, and the
\* summary total is the number of generated configurations.  run_task3_experiments keeps
\* its rows in memory, writes its csv once after the sweep, and has no tallies or summary.
C10_AggregatorProgress ==
    /\ (variant = TESTRUNNER /\ pc # "start" /\ Began) =>
          /\ Len(csv) = idx + 1 /\ csv[1] = header
          /\ idx >= 1 => csv[idx + 1] = rowOf(combos(quick)[idx], res)
          /\ \A i \in 1..idx :
                csv[i + 1].status = "error" =>
                    <<csv[i + 1].pool, csv[i + 1].policy, csv[i + 1].ops, csv[i + 1].pages,
                      csv[i + 1].write_frac>> = combos(quick)[i]
          /\ passes = CountRows("pass") /\ fails = CountRows("fail")
          /\ errors = CountRows("error")
          /\ passes + fails + errors = idx
          /\ Exited => report = [total |-> Len(combos(quick)), passes |-> passes,
                                 fails |-> fails, errors |-> errors]
          /\ ~Exited => report = NoReport
    /\ variant = TASK3 =>
          /\ ~Exited => csv = <<>>
          /\ csv \in {<<>>, <<t3header>> \o aggregated}
          /\ report = NoReport /\ passes + fails + errors = 0

\* mid-sweep: two configurations done, one passed and one errored, both rows on disk
C10_Witness ==
    /\ variant = TESTRUNNER /\ pc = "loop"
    /\ idx = 2 /\ idx < Len(combos(quick))
    /\ passes = 1 /\ errors = 1
    /\ Len(csv) = 3

(***************************************************************************)
(* Termination of the sweep.                                               *)
(***************************************************************************)
\* C11 as stated: every invocation of the tested binary ends, by the binary's exit or by
\* the timeout, so every sweep eventually reaches its end (the process exits), also when
\* the tested binary never exits on some configuration.
C11_SweepEventuallyEnds == <>Exited

\* pf_task1_testrunner alone: its sweep ends whatever the binary does
C11_TestrunnerEnds == (variant = TESTRUNNER) ~> Exited

(***************************************************************************)
(* Decoding of the headered Method block (run_task3_experiments).          *)
(***************************************************************************)
\* the data rows under the Method header of the output at hand
BlockRows == blockRows(NonBlank(outcome.stdout))
\* a row of the expected shape: eight fields, the last seven integers
WellFormed(r) == Len(r) = 8 /\ rowInts(r)
\* run_one has returned from an invocation that exited with status 0
Decoded == variant = TASK3 /\ calls # <<>> /\ ~running /\ outcome.rc = 0

\* C12 as stated: a row of the Method block whose field count or field type is not the
\* expected one is dropped and decoding goes on (no coercion, no crash of the script), a
\* block of fewer rows than expected gives a warning and no padded rows, and the results
\* emitted are exactly those of the well-formed rows present, in order.
C12_MalformedRowsDropped ==
    Decoded =>
        LET r == run_one(cur[1], outcome) IN
        /\ r.kind # "ValueError"
        /\ ~(Exited /\ exitCode = 1)
        /\ Len(BlockRows) < 3 => r.results = <<>>
        /\ Len(BlockRows) >= 3 =>
              LET good == SelectSeq(BlockRows, WellFormed) IN
              /\ r.kind = "list"
              /\ r.results = [j \in 1..Len(good) |-> resultOf(cur[1], good[j])]

====
